---------------------------- MODULE Spec2Model ----------------------------
(***************************************************************************)
(* A model of allure-emailer: configuration resolution (Config.from_env),  *)
(* summary extraction (parse_summary), HTML rendering (build_html_email),  *)
(* the SMTP session (send_email) and the `send` command that chains them.  *)
(*                                                                         *)
(* Strings are sequences of one-character strings; Python's None is the    *)
(* value None below, which no string of the model's alphabets equals.      *)
(***************************************************************************)
EXTENDS Integers, Sequences, FiniteSets, TLC

VARIABLES
    environ,        \* os.environ: key -> string or None (unset)
    env_file,       \* the env_file argument: NoPath, or the file behind the path
    overrides,      \* the overrides argument of from_env
    env_map,        \* from_env's local env_map, as left by the latest call
    results,        \* the outcome of every from_env call so far, in call order
    options,        \* the command-line options of `send`
    summary_path,   \* the path `send` hands to parse_summary
    summary_file,   \* what lies at that path on disk
    parsed,         \* the outcome of parse_summary
    html_body,      \* the outcome of build_html_email
    smtp,           \* state of the SMTP connection: "none", "open", "closed"
    smtp_log,       \* the SMTP operations attempted, in order
    stdout,         \* lines echoed by the command
    pc,             \* position of the `send` command
    raised,         \* the exception propagating, "" when there is none
    exit_code       \* process exit status once the command has ended, else -1

vars == <<environ, env_file, overrides, env_map, results, options, summary_path,
          summary_file, parsed, html_body, smtp, smtp_log, stdout, pc, raised,
          exit_code>>

(***************************************************************************)
(* Bounds of the model.                                                    *)
(***************************************************************************)
MaxPortLen == 2
MaxRcptLen == 3
MaxStrLen == 1
MaxCalls == 2
MaxCount == 2

(***************************************************************************)
(* Strings.                                                                *)
(***************************************************************************)
None == <<"<None>">>

SeqsUpTo(S, n) == UNION {[1..k -> S] : k \in 0..n}

Whitespace == {" ", "\t", "\n"}

Digits == <<"0", "1", "2", "3", "4", "5", "6", "7", "8", "9">>

DigitChars == {Digits[i] : i \in 1..10}

DigitValue(c) == (CHOOSE i \in 1..10 : Digits[i] = c) - 1

\* bool(v) for an Optional[str]: None and "" are falsy
Truthy(v) == v # None /\ v # <<>>

RECURSIVE LStrip(_)
LStrip(s) ==
    IF s # <<>> /\ Head(s) \in Whitespace THEN LStrip(Tail(s)) ELSE s

RECURSIVE RStrip(_)
RStrip(s) ==
    IF s # <<>> /\ s[Len(s)] \in Whitespace
    THEN RStrip(SubSeq(s, 1, Len(s) - 1))
    ELSE s

\* str.strip()
Strip(s) == RStrip(LStrip(s))

\* str.split(sep): the parts between separators, empty parts kept
RECURSIVE SplitFrom(_, _, _)
SplitFrom(s, sep, cur) ==
    IF s = <<>> THEN <<cur>>
    ELSE IF Head(s) = sep THEN <<cur>> \o SplitFrom(Tail(s), sep, <<>>)
    ELSE SplitFrom(Tail(s), sep, Append(cur, Head(s)))

Split(s, sep) == SplitFrom(s, sep, <<>>)

\* ", ".join(parts)
RECURSIVE Join(_)
Join(parts) ==
    IF parts = <<>> THEN <<>>
    ELSE IF Len(parts) = 1 THEN parts[1]
    ELSE parts[1] \o <<",", " ">> \o Join(Tail(parts))

RECURSIVE DigitsValue(_, _)
DigitsValue(s, acc) ==
    IF s = <<>> THEN acc
    ELSE IF Head(s) = "_" THEN DigitsValue(Tail(s), acc)
    ELSE DigitsValue(Tail(s), 10 * acc + DigitValue(Head(s)))

\* the digit part of an integer literal: digits, single underscores between them
ValidDigits(b) ==
    /\ b # <<>>
    /\ b[1] \in DigitChars
    /\ b[Len(b)] \in DigitChars
    /\ \A i \in 1..Len(b) : b[i] \in DigitChars \cup {"_"}
    /\ \A i \in 1..(Len(b) - 1) : ~(b[i] = "_" /\ b[i + 1] = "_")

\* int(s) for a str: surrounding whitespace dropped, an optional sign, digits;
\* anything else raises ValueError
ParseInt(s) ==
    LET t == Strip(s)
        signed == t # <<>> /\ t[1] \in {"+", "-"}
        body == IF signed THEN Tail(t) ELSE t
        mag == DigitsValue(body, 0)
    IN  IF ValidDigits(body)
        THEN [ok |-> TRUE, val |-> IF signed /\ t[1] = "-" THEN 0 - mag ELSE mag]
        ELSE [ok |-> FALSE, val |-> 0]

RECURSIVE NatToStr(_)
NatToStr(n) ==
    IF n < 10 THEN <<Digits[n + 1]>>
    ELSE Append(NatToStr(n \div 10), Digits[(n % 10) + 1])

\* str(n) for an int
IntToStr(n) == IF n < 0 THEN <<"-">> \o NatToStr(0 - n) ELSE NatToStr(n)

(***************************************************************************)
(* Configuration: config.py                                                *)
(***************************************************************************)
FieldNames ==
    <<"host", "port", "user", "password", "sender", "recipients", "json_path",
      "report_url">>

Fields == {FieldNames[i] : i \in 1..Len(FieldNames)}

Required == <<"host", "port", "user", "password", "sender", "recipients">>

\* field_name.upper()
Upper(f) ==
    CASE f = "host" -> "HOST"
      [] f = "port" -> "PORT"
      [] f = "user" -> "USER"
      [] f = "password" -> "PASSWORD"
      [] f = "sender" -> "SENDER"
      [] f = "recipients" -> "RECIPIENTS"
      [] f = "json_path" -> "JSON_PATH"
      [] f = "report_url" -> "REPORT_URL"

\* the environment's keys: the eight the program reads and one it does not
Keys == {Upper(f) : f \in Fields} \cup {"OTHER"}

\* the order in which the keys stand in the settings file
KeyOrder ==
    <<"HOST", "PORT", "USER", "PASSWORD", "SENDER", "RECIPIENTS", "JSON_PATH",
      "REPORT_URL", "OTHER">>

DEFAULT_SUMMARY_PATH == <<"allure-report/widgets/summary.json">>

NoConfig ==
    [host |-> None, port |-> 0, user |-> None, password |-> None, sender |-> None,
     recipients |-> <<>>, json_path |-> None, report_url |-> None]

NoError == [text |-> "", detail |-> <<>>]

\* load_dotenv's loop over the file's pairs with override=False: a key already in
\* the environment is skipped, a key without a value (None) is not set
RECURSIVE SetAsEnvironmentVariables(_, _, _)
SetAsEnvironmentVariables(env, values, keys) ==
    IF keys = <<>> THEN env
    ELSE LET k == Head(keys)
             skip == env[k] # None \/ values[k] = None
         IN  SetAsEnvironmentVariables(
                 IF skip THEN env ELSE [env EXCEPT ![k] = values[k]],
                 values, Tail(keys))

\* load_dotenv with override=True
LoadDotenvOverriding(env, file) ==
    IF file.path /\ file.exists
    THEN [k \in Keys |-> IF file.values[k] # None THEN file.values[k] ELSE env[k]]
    ELSE env

\* if env_file is not None: load_dotenv(env_file, override=False); a path with
\* no file behind it loads nothing
LoadDotenv(env, file) ==
    IF file.path /\ file.exists
    THEN SetAsEnvironmentVariables(env, file.values, KeyOrder)
    ELSE env

\* env_map[field_name] = os.getenv(field_name.upper())
ReadEnvMap(env) == [f \in Fields |-> env[Upper(f)]]

\* overrides used only where the environment gave nothing
ApplyOverridesEnvWins(m, ovr) ==
    [f \in Fields |-> IF m[f] # None THEN m[f] ELSE ovr[f]]

\* an override that is not None replaces the entry; a None or empty overrides
\* argument is the mapping with every value None
ApplyOverrides(m, ovr) ==
    [f \in Fields |-> IF ovr[f] # None THEN ovr[f] ELSE m[f]]

\* a check for None alone, which lets the empty string through
MissingAbsentOnly(m) == SelectSeq(Required, LAMBDA k : m[k] = None)

\* [k for k in [...] if not env_map.get(k)]
Missing(m) == SelectSeq(Required, LAMBDA k : ~Truthy(m[k]))

\* ', '.join(missing).upper(): the missing fields' names in upper case, in order
MissingNames(missing) == [i \in 1..Len(missing) |-> Upper(missing[i])]

\* [addr.strip() for addr in s.split(",") if addr.strip()]
RecipientsList(s) ==
    LET parts == Split(s, ",")
        kept == SelectSeq(parts, LAMBDA a : Strip(a) # <<>>)
    IN  [i \in 1..Len(kept) |-> Strip(kept[i])]

\* v or default
OrDefault(v, default) == IF Truthy(v) THEN v ELSE default

\* int(port_value) if port_value is not None else 0
ConvertPort(port_value) ==
    IF port_value # None THEN ParseInt(port_value) ELSE [ok |-> TRUE, val |-> 0]

\* from_env reading the environment as it was before the file was loaded
FromEnvReadBeforeLoad(env, file, ovr) ==
    LET loaded == LoadDotenv(env, file)
        m == ApplyOverrides(ReadEnvMap(env), ovr)
        missing == Missing(m)
        port == ConvertPort(m["port"])
        outcome ==
            IF missing # <<>>
            THEN [ok |-> FALSE, config |-> NoConfig,
                  error |-> [text |-> "Missing required configuration",
                             detail |-> MissingNames(missing)]]
            ELSE IF ~port.ok
            THEN [ok |-> FALSE, config |-> NoConfig,
                  error |-> [text |-> "Invalid port value", detail |-> m["port"]]]
            ELSE [ok |-> TRUE,
                  config |->
                      [host |-> m["host"], port |-> port.val, user |-> m["user"],
                       password |-> m["password"], sender |-> m["sender"],
                       recipients |-> RecipientsList(m["recipients"]),
                       json_path |-> OrDefault(m["json_path"], DEFAULT_SUMMARY_PATH),
                       report_url |-> OrDefault(m["report_url"], <<>>)],
                  error |-> NoError]
    IN  [environ |-> loaded, env_map |-> m, outcome |-> outcome]

\* Config.from_env on (os.environ, env_file, overrides): the environment it
\* leaves, its env_map and what it returns or raises
FromEnv(env, file, ovr) ==
    LET loaded == LoadDotenv(env, file)
        m == ApplyOverrides(ReadEnvMap(loaded), ovr)
        missing == Missing(m)
        port == ConvertPort(m["port"])
        outcome ==
            IF missing # <<>>
            THEN [ok |-> FALSE, config |-> NoConfig,
                  error |-> [text |-> "Missing required configuration",
                             detail |-> MissingNames(missing)]]
            ELSE IF ~port.ok
            THEN [ok |-> FALSE, config |-> NoConfig,
                  error |-> [text |-> "Invalid port value", detail |-> m["port"]]]
            ELSE [ok |-> TRUE,
                  config |->
                      [host |-> m["host"], port |-> port.val, user |-> m["user"],
                       password |-> m["password"], sender |-> m["sender"],
                       recipients |-> RecipientsList(m["recipients"]),
                       json_path |-> OrDefault(m["json_path"], DEFAULT_SUMMARY_PATH),
                       report_url |-> OrDefault(m["report_url"], <<>>)],
                  error |-> NoError]
    IN  [environ |-> loaded, env_map |-> m, outcome |-> outcome]

(***************************************************************************)
(* Summary extraction and rendering: emailer.py                            *)
(***************************************************************************)
CounterNames == <<"total", "passed", "failed", "broken", "skipped">>

Counters == {CounterNames[i] : i \in 1..Len(CounterNames)}

\* JSON values as json.loads returns them; a float is held in halves
JAbsent == [t |-> "absent", n |-> 0, s |-> <<>>]

JNull == [t |-> "null", n |-> 0, s |-> <<>>]

JInt(n) == [t |-> "int", n |-> n, s |-> <<>>]

JFloat(halves) == [t |-> "float", n |-> halves, s |-> <<>>]

JStr(s) == [t |-> "str", n |-> 0, s |-> s]

NoStats == [c \in Counters |-> 0]

NoHtml == [rows |-> <<>>, href |-> None]

NotParsed == [done |-> FALSE, ok |-> FALSE, stats |-> NoStats, error |-> ""]

\* int(x) for a float: truncation towards zero
TruncHalves(h) == IF h >= 0 THEN h \div 2 ELSE 0 - ((0 - h) \div 2)

\* int(stats.get(key)): a missing key gives None, which int() rejects
IntOfNoDefault(v) ==
    CASE v.t = "int" -> [ok |-> TRUE, val |-> v.n, error |-> ""]
      [] v.t = "float" -> [ok |-> TRUE, val |-> TruncHalves(v.n), error |-> ""]
      [] v.t = "str" ->
            LET p == ParseInt(v.s)
            IN  [ok |-> p.ok, val |-> p.val,
                 error |-> IF p.ok THEN "" ELSE "ValueError"]
      [] OTHER -> [ok |-> FALSE, val |-> 0, error |-> "TypeError"]

\* int(stats.get(key, 0)) for the value v held under the key
IntOf(v) ==
    CASE v.t = "absent" -> [ok |-> TRUE, val |-> 0, error |-> ""]
      [] v.t = "int" -> [ok |-> TRUE, val |-> v.n, error |-> ""]
      [] v.t = "float" -> [ok |-> TRUE, val |-> TruncHalves(v.n), error |-> ""]
      [] v.t = "str" ->
            LET p == ParseInt(v.s)
            IN  [ok |-> p.ok, val |-> p.val,
                 error |-> IF p.ok THEN "" ELSE "ValueError"]
      [] v.t = "null" -> [ok |-> FALSE, val |-> 0, error |-> "TypeError"]

\* parse_summary on what lies at the path: the five counters, or the exception
ParseSummary(file) ==
    IF file.kind # "file"
    THEN [done |-> TRUE, ok |-> FALSE, stats |-> NoStats, error |-> "FileNotFoundError"]
    ELSE IF ~file.valid
    THEN [done |-> TRUE, ok |-> FALSE, stats |-> NoStats, error |-> "JSONDecodeError"]
    ELSE IF file.top # "object" \/ file.statistic \notin {"absent", "object"}
    THEN [done |-> TRUE, ok |-> FALSE, stats |-> NoStats, error |-> "AttributeError"]
    ELSE LET stats == [c \in Counters |->
                          IF file.statistic = "absent" THEN JAbsent
                          ELSE file.counters[c]]
             bad == {i \in 1..Len(CounterNames) : ~IntOf(stats[CounterNames[i]]).ok}
             first == CHOOSE i \in bad : \A j \in bad : i <= j
         IN  IF bad # {}
             THEN [done |-> TRUE, ok |-> FALSE, stats |-> NoStats,
                   error |-> IntOf(stats[CounterNames[first]]).error]
             ELSE [done |-> TRUE, ok |-> TRUE,
                   stats |-> [c \in Counters |-> IntOf(stats[c]).val],
                   error |-> ""]

\* build_html_email: the five table rows in order and the link paragraph, which
\* is there only for a non-empty report_url
BuildHtmlEmail(stats, report_url) ==
    [rows |-> <<stats["total"], stats["passed"], stats["failed"], stats["broken"],
                stats["skipped"]>>,
     href |-> IF Truthy(report_url) THEN report_url ELSE None]

(***************************************************************************)
(* Inputs of from_env: the environment, the settings file and the overrides *)
(***************************************************************************)
Sources == {"file", "env", "ovr"}

PortChars == {"0", "5", "-", "+", " ", "x"}

RcptChars == {"a", "b", ",", " "}

StrChars == {"x", "y"}

Values(k) ==
    CASE k = "PORT" -> SeqsUpTo(PortChars, MaxPortLen)
      [] k = "RECIPIENTS" -> SeqsUpTo(RcptChars, MaxRcptLen)
      [] OTHER -> SeqsUpTo(StrChars, MaxStrLen)

\* a value of each key that passes validation
Usual(k) ==
    CASE k = "PORT" -> <<"5">>
      [] k = "RECIPIENTS" -> <<"a">>
      [] OTHER -> <<"x">>

NoPath == [path |-> FALSE, exists |-> FALSE, values |-> [k \in Keys |-> None]]

NoSuchFile == [path |-> TRUE, exists |-> FALSE, values |-> [k \in Keys |-> None]]

SettingsFile(values) == [path |-> TRUE, exists |-> TRUE, values |-> values]

NoOverrides == [f \in Fields |-> None]

\* `send` run with no option given; port is a sequence holding the integer, if any
NoOptions ==
    [host |-> None, port |-> <<>>, user |-> None, password |-> None, sender |-> None,
     recipients |-> None, json_path |-> None, report_url |-> None,
     subject |-> <<"Allure Test Summary">>]

NoFile ==
    [kind |-> "missing", valid |-> FALSE, top |-> "object", statistic |-> "absent",
     counters |-> [c \in Counters |-> JAbsent]]

Idle ==
    /\ options = NoOptions
    /\ summary_path = None
    /\ summary_file = NoFile
    /\ parsed = NotParsed
    /\ html_body = NoHtml
    /\ smtp = "none"
    /\ smtp_log = <<>>
    /\ stdout = <<>>
    /\ pc = "idle"
    /\ raised = ""
    /\ exit_code = -1

\* one key takes any value in one source and is unset or usual in the other two;
\* every other key is unset, or usual in one and the same source
InitFocus ==
    \E k \in Keys, r \in Sources, base \in Sources \cup {"none"} :
    \E v \in Values(k) \cup {None}, rest \in [Sources -> {None, Usual(k)}] :
        LET at(j, s) ==
                IF j = k THEN (IF s = r THEN v ELSE rest[s])
                ELSE IF s = base THEN Usual(j) ELSE None
        IN  /\ environ = [j \in Keys |-> at(j, "env")]
            /\ env_file = SettingsFile([j \in Keys |-> at(j, "file")])
            /\ overrides = [f \in Fields |-> at(Upper(f), "ovr")]

\* every required field is unset, empty or usual, all in one source
InitPresence ==
    \E src \in Sources, shape \in {NoPath, NoSuchFile} :
    \E has \in [{Upper(Required[i]) : i \in 1..Len(Required)} -> {0, 1, 2}] :
        LET val(j) ==
                IF j \notin DOMAIN has \/ has[j] = 0 THEN None
                ELSE IF has[j] = 1 THEN <<>> ELSE Usual(j)
        IN  /\ environ = [j \in Keys |-> IF src = "env" THEN val(j) ELSE None]
            /\ env_file = IF src = "file" THEN SettingsFile([j \in Keys |-> val(j)])
                          ELSE shape
            /\ overrides = [f \in Fields |-> IF src = "ovr" THEN val(Upper(f))
                                             ELSE None]

InitConfig ==
    /\ InitFocus \/ InitPresence
    /\ env_map = [f \in Fields |-> None]
    /\ results = <<>>
    /\ Idle

\* one call of Config.from_env(env_file, overrides) in this process
FromEnvCall ==
    /\ pc = "idle"
    /\ Len(results) < MaxCalls
    /\ LET r == FromEnv(environ, env_file, overrides)
       IN  /\ environ' = r.environ
           /\ env_map' = r.env_map
           /\ results' = Append(results, r.outcome)
    /\ UNCHANGED <<env_file, overrides, options, summary_path, summary_file, parsed,
                   html_body, smtp, smtp_log, stdout, pc, raised, exit_code>>

NextConfig == FromEnvCall

SpecConfig == InitConfig /\ [][NextConfig]_vars

(***************************************************************************)
(* Properties of Config.from_env                                           *)
(***************************************************************************)
Called == results # <<>>

Latest == results[Len(results)]

RequiredSet == {Required[i] : i \in 1..Len(Required)}

\* C1: once from_env has run, for each of the eight fields an override that is
\* not None is the value env_map holds for the field, whatever the file and the
\* environment say, and a returned Config carries it in host, user, password and
\* sender; with no override env_map holds the environment's value.
C1_OverridePrecedence ==
    Called =>
        /\ \A f \in Fields :
              env_map[f] = IF overrides[f] # None THEN overrides[f]
                           ELSE environ[Upper(f)]
        /\ Latest.ok =>
              \A f \in {"host", "user", "password", "sender"} :
                  overrides[f] # None => Latest.config[f] = overrides[f]

\* a call whose override for a field differs from both the file's and the
\* environment's value for it
C1_Witness ==
    /\ Called
    /\ \E f \in Fields :
          /\ overrides[f] # None
          /\ environ[Upper(f)] \notin {None, overrides[f]}
          /\ env_file.exists
          /\ env_file.values[Upper(f)] \notin {None, overrides[f]}
          /\ env_map[f] = overrides[f]

\* C2: a step of from_env leaves every variable that was set in the environment
\* as it was, sets a key only if it was unset and then to the file's value, and
\* with no override resolves a field that was set in the environment to that
\* earlier value.
C2_EnvironmentOverFile ==
    [][ /\ \A k \in Keys : environ[k] # None => environ'[k] = environ[k]
        /\ \A k \in Keys :
              environ'[k] # environ[k] =>
                  /\ environ[k] = None
                  /\ env_file.path /\ env_file.exists
                  /\ environ'[k] = env_file.values[k]
        /\ Len(results') > Len(results) =>
              \A f \in Fields :
                  overrides[f] = None /\ environ[Upper(f)] # None =>
                      env_map'[f] = environ[Upper(f)]
      ]_vars

\* a call made with HOST set in the environment and set otherwise in the file
C2_Witness ==
    /\ Called
    /\ env_file.exists
    /\ env_file.values["HOST"] # None
    /\ environ["HOST"] \notin {None, env_file.values["HOST"]}
    /\ overrides["host"] = None
    /\ env_map["host"] = environ["HOST"]

\* C3: if a required field of the merged env_map is None or empty, the call
\* raises "Missing required configuration", returns no Config, and the message
\* names exactly the required fields that are None or empty.
C3_MissingRequired ==
    Called =>
        LET absent == {f \in RequiredSet : env_map[f] \in {None, <<>>}}
            named == {Latest.error.detail[i] : i \in 1..Len(Latest.error.detail)}
        IN  /\ absent # {} =>
                  /\ ~Latest.ok
                  /\ Latest.config = NoConfig
                  /\ Latest.error.text = "Missing required configuration"
                  /\ named = {Upper(f) : f \in absent}
                  /\ Len(Latest.error.detail) = Cardinality(absent)
            /\ Latest.error.text = "Missing required configuration" => absent # {}

\* only host and port are set: the error names the other four
C3_Witness ==
    /\ Called
    /\ \A f \in RequiredSet : Truthy(env_map[f]) <=> f \in {"host", "port"}
    /\ ~Latest.ok
    /\ Latest.error.detail = <<"USER", "PASSWORD", "SENDER", "RECIPIENTS">>

\* C4: every Config from_env returns has non-empty host, user, password and
\* sender and a non-empty recipients list.
C4_RecipientsNonEmpty ==
    \A i \in 1..Len(results) :
        results[i].ok =>
            /\ \A f \in {"host", "user", "password", "sender"} :
                  results[i].config[f] \notin {None, <<>>}
            /\ results[i].config.recipients # <<>>

\* C5: every Config from_env returns has a port greater than 0, the integer the
\* merged port string denotes; a port string that denotes no integer raises
\* "Invalid port value".
C5_PortPositive ==
    Called =>
        /\ Latest.ok =>
              /\ Latest.config.port > 0
              /\ ParseInt(env_map["port"]).ok
              /\ Latest.config.port = ParseInt(env_map["port"]).val
        /\ Truthy(env_map["port"]) /\ ~ParseInt(env_map["port"]).ok => ~Latest.ok

\* C8: after a call that returned a Config, a further call with the same file
\* and overrides returns an equal Config and leaves the environment unchanged.
C8_Idempotent ==
    [][ Called /\ results[1].ok =>
            /\ environ' = environ
            /\ Len(results') > Len(results) => results'[Len(results')] = results[1]
      ]_vars

\* two calls, the first of which took JSON_PATH from the file
C8_Witness ==
    /\ Len(results) = 2
    /\ results[1].ok
    /\ env_file.exists
    /\ overrides["json_path"] = None
    /\ env_file.values["JSON_PATH"] = <<"y">>
    /\ results[2].config.json_path = <<"y">>

(***************************************************************************)
(* parse_summary on its own                                                *)
(***************************************************************************)
JsonObject(statistic, counters) ==
    [kind |-> "file", valid |-> TRUE, top |-> "object", statistic |-> statistic,
     counters |-> counters]

PlainCounters == [Counters -> {JAbsent} \cup {JInt(n) : n \in 0..MaxCount}]

OddValues == {JNull, JFloat(3), JStr(<<"1">>), JStr(<<"x">>)}

\* statistic objects whose counters are integers or missing, but for at most one
OddCounters ==
    {[cs EXCEPT ![c] = v] : cs \in PlainCounters, c \in Counters, v \in OddValues}

SummaryFiles ==
    {NoFile, [NoFile EXCEPT !.kind = "directory"], [NoFile EXCEPT !.kind = "file"],
     [NoFile EXCEPT !.kind = "file", !.valid = TRUE, !.top = "array"],
     JsonObject("absent", NoFile.counters), JsonObject("null", NoFile.counters)}
    \cup {JsonObject("object", cs) : cs \in PlainCounters \cup OddCounters}

InitSummary ==
    /\ environ = [k \in Keys |-> None]
    /\ env_file = NoPath
    /\ overrides = NoOverrides
    /\ env_map = [f \in Fields |-> None]
    /\ results = <<>>
    /\ options = NoOptions
    /\ summary_path \in {DEFAULT_SUMMARY_PATH, <<"x">>}
    /\ summary_file \in SummaryFiles
    /\ parsed = NotParsed
    /\ html_body = NoHtml
    /\ smtp = "none"
    /\ smtp_log = <<>>
    /\ stdout = <<>>
    /\ pc = "idle"
    /\ raised = ""
    /\ exit_code = -1

\* one call of parse_summary(summary_path)
ParseSummaryCall ==
    /\ pc = "idle"
    /\ ~parsed.done
    /\ parsed' = ParseSummary(summary_file)
    /\ UNCHANGED <<environ, env_file, overrides, env_map, results, options,
                   summary_path, summary_file, html_body, smtp, smtp_log, stdout,
                   pc, raised, exit_code>>

NextSummary == ParseSummaryCall

SpecSummary == InitSummary /\ [][NextSummary]_vars

\* C9: for an existing file holding a JSON object, parse_summary returns the
\* five counters, each the integer stored under its key in `statistic` and 0
\* when the key or `statistic` itself is missing; a path with no regular file
\* behind it raises FileNotFoundError and yields no counters.
C9_SummaryCounters ==
    parsed.done =>
        LET f == summary_file
            object == f.kind = "file" /\ f.valid /\ f.top = "object"
        IN  /\ f.kind # "file" =>
                  ~parsed.ok /\ parsed.error = "FileNotFoundError"
                  /\ parsed.stats = NoStats
            /\ object /\ f.statistic = "absent" =>
                  parsed.ok /\ \A c \in Counters : parsed.stats[c] = 0
            /\ object /\ f.statistic = "object"
                  /\ (\A c \in Counters : f.counters[c].t \in {"absent", "int"}) =>
                  parsed.ok
            /\ parsed.ok /\ f.statistic = "object" =>
                  \A c \in Counters :
                      /\ f.counters[c].t = "int" => parsed.stats[c] = f.counters[c].n
                      /\ f.counters[c].t = "absent" => parsed.stats[c] = 0
            /\ parsed.ok => DOMAIN parsed.stats = Counters

\* statistic holds total, passed and failed only
C9_Witness ==
    /\ parsed.done /\ parsed.ok
    /\ summary_file.statistic = "object"
    /\ summary_file.counters =
          [c \in Counters |->
              CASE c = "total" -> JInt(2) [] c = "passed" -> JInt(1)
                [] c = "failed" -> JInt(1) [] OTHER -> JAbsent]
    /\ parsed.stats =
          [c \in Counters |->
              CASE c = "total" -> 2 [] c = "passed" -> 1 [] c = "failed" -> 1
                [] OTHER -> 0]

(***************************************************************************)
(* The `send` command (cli.py) and the SMTP session of send_email          *)
(***************************************************************************)
\* the overrides dictionary `send` builds from its options
BuildOverrides(opts) ==
    [f \in Fields |->
        IF f = "port"
        THEN (IF opts.port # <<>> THEN IntToStr(opts.port[1]) ELSE None)
        ELSE opts[f]]

\* a or b
Or(a, b) == IF Truthy(a) THEN a ELSE b

NoMessage == [Subject |-> None, From |-> None, To |-> None, html |-> None]

\* the MIME message send_email builds
Message(config, html, subject) ==
    [Subject |-> subject, From |-> config.sender, To |-> Join(config.recipients),
     html |-> html]

SmtpOp(op, ok) ==
    [op |-> op, ok |-> ok, host |-> None, port |-> 0, user |-> None,
     password |-> None, from_addr |-> None, to_addrs |-> <<>>, msg |-> NoMessage]

\* server.sendmail(config.sender, config.recipients, message.as_string())
Sendmail(config, html, subject, ok) ==
    [SmtpOp("sendmail", ok) EXCEPT
        !.from_addr = config.sender,
        !.to_addrs = config.recipients,
        !.msg = Message(config, html, subject)]

\* `send` going on to render after parse_summary raised
NextStepParseSwallowed(at, ok) ==
    CASE at = "start" -> IF ok THEN "parse" ELSE "raised"
      [] at = "parse" -> "render"
      [] at = "render" -> "connect"
      [] at = "connect" -> IF ok THEN "starttls" ELSE "raised"
      [] at = "starttls" -> IF ok THEN "login" ELSE "exit"
      [] at = "login" -> IF ok THEN "sendmail" ELSE "exit"
      [] at = "sendmail" -> "exit"
      [] at = "exit" -> IF ok THEN "echo" ELSE "raised"
      [] at = "echo" -> "done"

\* send_email going on to sendmail after login raised
NextStepLoginIgnored(at, ok) ==
    CASE at = "start" -> IF ok THEN "parse" ELSE "raised"
      [] at = "parse" -> IF ok THEN "render" ELSE "raised"
      [] at = "render" -> "connect"
      [] at = "connect" -> IF ok THEN "starttls" ELSE "raised"
      [] at = "starttls" -> IF ok THEN "login" ELSE "exit"
      [] at = "login" -> "sendmail"
      [] at = "sendmail" -> "exit"
      [] at = "exit" -> IF ok THEN "echo" ELSE "raised"
      [] at = "echo" -> "done"

\* where control goes from a step of `send` that succeeded (ok) or raised: an
\* exception leaves the function, through the `with` block's exit if inside it
NextStep(at, ok) ==
    CASE at = "start" -> IF ok THEN "parse" ELSE "raised"
      [] at = "parse" -> IF ok THEN "render" ELSE "raised"
      [] at = "render" -> "connect"
      [] at = "connect" -> IF ok THEN "starttls" ELSE "raised"
      [] at = "starttls" -> IF ok THEN "login" ELSE "exit"
      [] at = "login" -> IF ok THEN "sendmail" ELSE "exit"
      [] at = "sendmail" -> "exit"
      [] at = "exit" -> IF ok THEN "echo" ELSE "raised"
      [] at = "echo" -> "done"

\* the exit status of a command that has ended at p: an uncaught exception ends
\* the process with status 1
ExitCode(p) == IF p = "raised" THEN 1 ELSE IF p = "done" THEN 0 ELSE -1

\* a connection closed by a quit() at the end of the block only
CloseOnSuccessOnly(conn, exc) == IF exc = "" THEN "closed" ELSE conn

\* the connection after the `with smtplib.SMTP(...)` block is left
CloseOnExit(conn, exc) == "closed"

Config1 == results[1].config

\* config = Config.from_env(env_file, overrides=overrides)
SendResolve ==
    /\ pc = "start"
    /\ LET ovr == BuildOverrides(options)
           r == FromEnv(environ, env_file, ovr)
       IN  /\ overrides' = ovr
           /\ environ' = r.environ
           /\ env_map' = r.env_map
           /\ results' = Append(results, r.outcome)
           /\ raised' = IF r.outcome.ok THEN "" ELSE "ValueError"
           /\ pc' = NextStep("start", r.outcome.ok)
    /\ exit_code' = ExitCode(pc')
    /\ UNCHANGED <<env_file, options, summary_path, summary_file, parsed, html_body,
                   smtp, smtp_log, stdout>>

\* summary_stats = parse_summary(json_path or config.json_path)
SendParse ==
    /\ pc = "parse"
    /\ summary_path' = Or(options.json_path, Config1.json_path)
    /\ parsed' = ParseSummary(summary_file)
    /\ raised' = parsed'.error
    /\ pc' = NextStep("parse", parsed'.ok)
    /\ exit_code' = ExitCode(pc')
    /\ UNCHANGED <<environ, env_file, overrides, env_map, results, options,
                   summary_file, html_body, smtp, smtp_log, stdout>>

\* html_body = build_html_email(summary_stats, report_url or config.report_url)
SendRender ==
    /\ pc = "render"
    /\ html_body' = BuildHtmlEmail(parsed.stats,
                                   Or(options.report_url, Config1.report_url))
    /\ pc' = NextStep("render", TRUE)
    /\ UNCHANGED <<environ, env_file, overrides, env_map, results, options,
                   summary_path, summary_file, parsed, smtp, smtp_log, stdout,
                   raised, exit_code>>

\* smtplib.SMTP(config.host, config.port): the connection opens or the
\* constructor raises
SmtpConnect ==
    /\ pc = "connect"
    /\ \E ok \in BOOLEAN :
          /\ smtp_log' = Append(smtp_log,
                 [SmtpOp("connect", ok) EXCEPT !.host = Config1.host,
                                               !.port = Config1.port])
          /\ smtp' = IF ok THEN "open" ELSE smtp
          /\ raised' = IF ok THEN "" ELSE "OSError"
          /\ pc' = NextStep("connect", ok)
    /\ exit_code' = ExitCode(pc')
    /\ UNCHANGED <<environ, env_file, overrides, env_map, results, options,
                   summary_path, summary_file, parsed, html_body, stdout>>

\* server.starttls()
SmtpStarttls ==
    /\ pc = "starttls"
    /\ \E ok \in BOOLEAN :
          /\ smtp_log' = Append(smtp_log, SmtpOp("starttls", ok))
          /\ raised' = IF ok THEN "" ELSE "SMTPException"
          /\ pc' = NextStep("starttls", ok)
    /\ UNCHANGED <<environ, env_file, overrides, env_map, results, options,
                   summary_path, summary_file, parsed, html_body, smtp, stdout,
                   exit_code>>

\* server.login(config.user, config.password)
SmtpLogin ==
    /\ pc = "login"
    /\ \E ok \in BOOLEAN :
          /\ smtp_log' = Append(smtp_log,
                 [SmtpOp("login", ok) EXCEPT !.user = Config1.user,
                                             !.password = Config1.password])
          /\ raised' = IF ok THEN "" ELSE "SMTPAuthenticationError"
          /\ pc' = NextStep("login", ok)
    /\ UNCHANGED <<environ, env_file, overrides, env_map, results, options,
                   summary_path, summary_file, parsed, html_body, smtp, stdout,
                   exit_code>>

\* server.sendmail(...): the server takes the message or the call raises; with
\* no recipient at all it raises SMTPRecipientsRefused
SmtpSendmail ==
    /\ pc = "sendmail"
    /\ \E accepted \in BOOLEAN :
          LET ok == accepted /\ Config1.recipients # <<>>
          IN  /\ smtp_log' = Append(smtp_log,
                     Sendmail(Config1, html_body, options.subject, ok))
              /\ raised' = IF ok THEN ""
                           ELSE IF Config1.recipients = <<>>
                           THEN "SMTPRecipientsRefused" ELSE "SMTPException"
              /\ pc' = NextStep("sendmail", ok)
    /\ UNCHANGED <<environ, env_file, overrides, env_map, results, options,
                   summary_path, summary_file, parsed, html_body, smtp, stdout,
                   exit_code>>

\* leaving the `with` block, normally or by an exception
SmtpExit ==
    /\ pc = "exit"
    /\ smtp' = CloseOnExit(smtp, raised)
    /\ pc' = NextStep("exit", raised = "")
    /\ exit_code' = ExitCode(pc')
    /\ UNCHANGED <<environ, env_file, overrides, env_map, results, options,
                   summary_path, summary_file, parsed, html_body, smtp_log, stdout,
                   raised>>

Confirmation == <<"Summary email sent successfully.">>

\* typer.echo("Summary email sent successfully.")
SendEcho ==
    /\ pc = "echo"
    /\ stdout' = Append(stdout, Confirmation)
    /\ pc' = NextStep("echo", TRUE)
    /\ exit_code' = ExitCode(pc')
    /\ UNCHANGED <<environ, env_file, overrides, env_map, results, options,
                   summary_path, summary_file, parsed, html_body, smtp, smtp_log,
                   raised>>

\* settings files, environments, options and summary files `send` is run with
SendFiles ==
    LET usual == [k \in Keys |-> IF k = "OTHER" THEN None ELSE Usual(k)]
    IN  {NoSuchFile, SettingsFile(usual),
         SettingsFile([usual EXCEPT !["RECIPIENTS"] = None]),
         SettingsFile([usual EXCEPT !["RECIPIENTS"] = <<",">>]),
         SettingsFile([usual EXCEPT !["RECIPIENTS"] = <<"a", ",", "b">>]),
         SettingsFile([usual EXCEPT !["PORT"] = <<"x">>])}

SendEnvironments ==
    {[k \in Keys |-> None], [k \in Keys |-> IF k = "USER" THEN <<"y">> ELSE None]}

SendOptions ==
    {[NoOptions EXCEPT !.port = p, !.recipients = r, !.json_path = j,
                       !.report_url = u] :
        p \in {<<>>, <<0>>, <<25>>}, r \in {None, <<"b">>}, j \in {None, <<"x">>},
        u \in {None, <<"y">>}}

SendSummaries ==
    {NoFile, [NoFile EXCEPT !.kind = "file"], JsonObject("absent", NoFile.counters),
     JsonObject("object", [NoFile.counters EXCEPT !["total"] = JNull]),
     JsonObject("object",
                [NoFile.counters EXCEPT !["total"] = JInt(2), !["passed"] = JInt(1),
                                        !["failed"] = JInt(1)])}

Init ==
    /\ environ \in SendEnvironments
    /\ env_file \in SendFiles
    /\ overrides = NoOverrides
    /\ env_map = [f \in Fields |-> None]
    /\ results = <<>>
    /\ options \in SendOptions
    /\ summary_path = None
    /\ summary_file \in SendSummaries
    /\ parsed = NotParsed
    /\ html_body = NoHtml
    /\ smtp = "none"
    /\ smtp_log = <<>>
    /\ stdout = <<>>
    /\ pc = "start"
    /\ raised = ""
    /\ exit_code = -1

Next ==
    \/ SendResolve
    \/ SendParse
    \/ SendRender
    \/ SmtpConnect
    \/ SmtpStarttls
    \/ SmtpLogin
    \/ SmtpSendmail
    \/ SmtpExit
    \/ SendEcho

Spec == Init /\ [][Next]_vars

(***************************************************************************)
(* Properties of `send` and send_email                                     *)
(***************************************************************************)
Ended == pc \in {"done", "raised"}

\* send_email has returned or raised
Left == pc \in {"echo", "done", "raised"}

LastOp == smtp_log[Len(smtp_log)]

\* C6: the stages run in the order from_env, parse_summary, build_html_email,
\* send_email; after a stage that failed none of the later ones has started, no
\* SMTP connection was opened if from_env or parse_summary failed, nothing is
\* printed and the command ends with a non-zero status; the confirmation is
\* printed once, and only after all four stages succeeded.
C6_FailStop ==
    /\ parsed.done => Called /\ results[1].ok
    /\ html_body # NoHtml => parsed.done /\ parsed.ok
    /\ smtp_log # <<>> => html_body # NoHtml
    /\ smtp # "none" => smtp_log # <<>>
    /\ Called /\ ~results[1].ok =>
          /\ pc = "raised" /\ ~parsed.done /\ html_body = NoHtml
          /\ smtp_log = <<>> /\ smtp = "none"
    /\ parsed.done /\ ~parsed.ok =>
          pc = "raised" /\ html_body = NoHtml /\ smtp_log = <<>> /\ smtp = "none"
    /\ (\E i \in 1..Len(smtp_log) : ~smtp_log[i].ok) => stdout = <<>>
    /\ stdout # <<>> =>
          /\ stdout = <<Confirmation>>
          /\ pc = "done"
          /\ results[1].ok /\ parsed.ok /\ html_body # NoHtml
          /\ Len(smtp_log) = 4 /\ LastOp.op = "sendmail" /\ LastOp.ok
    /\ pc = "raised" => exit_code # 0 /\ exit_code # -1 /\ stdout = <<>>
    /\ pc = "done" => exit_code = 0 /\ stdout = <<Confirmation>>
    /\ ~Ended => exit_code = -1

\* the command ended on a summary that could not be parsed, after from_env
\* succeeded
C6_Witness ==
    /\ pc = "raised"
    /\ results[1].ok
    /\ parsed.done /\ ~parsed.ok
    /\ smtp = "none"
    /\ exit_code = 1

\* C7: once send_email has returned or raised, the connection is not open: it
\* was closed if it had been opened, whichever step failed.
C7_ConnectionClosed ==
    Left =>
        /\ smtp # "open"
        /\ smtp_log # <<>> /\ smtp_log[1].ok => smtp = "closed"

\* send_email raised on a failed login and the connection is closed
C7_Witness ==
    /\ pc = "raised"
    /\ smtp = "closed"
    /\ LastOp.op = "login" /\ ~LastOp.ok

\* C10: the SMTP operations of a call are, in order, connect, starttls, login,
\* sendmail, each attempted only after the one before succeeded and none twice;
\* starttls follows every opened connection; sendmail goes from config.sender to
\* the whole of config.recipients; a failed operation ends the call with its
\* exception.
C10_SessionOrder ==
    /\ Len(smtp_log) <= 4
    /\ \A i \in 1..Len(smtp_log) :
          /\ smtp_log[i].op = <<"connect", "starttls", "login", "sendmail">>[i]
          /\ i > 1 => smtp_log[i - 1].ok
          /\ smtp_log[i].op = "sendmail" =>
                /\ smtp_log[i].from_addr = Config1.sender
                /\ smtp_log[i].to_addrs = Config1.recipients
    /\ Left /\ smtp_log # <<>> =>
          /\ ~LastOp.ok \/ LastOp.op = "sendmail"
          /\ smtp_log[1].ok => Len(smtp_log) >= 2
          /\ ~LastOp.ok => pc = "raised"

\* a message went out to two recipients
C10_Witness ==
    /\ pc = "done"
    /\ Len(smtp_log) = 4
    /\ LastOp.ok
    /\ LastOp.to_addrs = <<<<"a">>, <<"b">>>>
    /\ LastOp.msg.To = <<"a", ",", " ", "b">>

=============================================================================
